---- MODULE Spec2Model ----
(***************************************************************************)
(* Model of pyhelper.gamehelpers: Timer, CountUpTimer and CountDownTimer.  *)
(*                                                                         *)
(* Time is counted in integer ticks; one hundredth of a second is          *)
(* TicksPerCenti ticks, so round(x, 2) is rounding to the nearest multiple *)
(* of TicksPerCenti.  time.time() is a non-decreasing clock: it may        *)
(* advance between handlers (Tick) and between two reads of one handler.   *)
(* One object is constructed in Init (its class is `kind`) and driven by   *)
(* its public methods.  The variables after `now` are history variables:   *)
(* they record what the last call did and do not influence the program.    *)
(***************************************************************************)
EXTENDS Integers, Sequences, FiniteSets, TLC

\* ---- bounds of the model ----
TicksPerCenti == 4
Epoch == 2
MaxClock == 12
InnerDelay == 1
MaxCalls == 2

\* ---- inputs ----
Sentinel == -1
Durations == {Sentinel, 0, TicksPerCenti, TicksPerCenti + 1}
Overrides == {Sentinel, TicksPerCenti}
Offsets == {0, 2}
TicksPerSecond == 100 * TicksPerCenti
HourFields == {0}
MinuteFields == {0}
SecondFields == {2, TicksPerCenti + 1}
\* the time that passes before the 2nd, 3rd, ... clock reading of one call
Delays(n) == [1..n -> 0..InnerDelay]

VARIABLES kind, seconds, time_in_seconds, command, saved_time, is_running,
          start_time, is_pause, now,
          op, lastCall, result, reads, calls, seen, raised, hist, startedAt,
          stopped

vars == <<kind, seconds, time_in_seconds, command, saved_time, is_running,
          start_time, is_pause, now,
          op, lastCall, result, reads, calls, seen, raised, hist, startedAt,
          stopped>>

\* round(x, 2) that truncates
Round2_floor(x) == (x \div TicksPerCenti) * TicksPerCenti

\* round(x, 2) on a tick count: nearest multiple of TicksPerCenti, ties to even
Round2(x) ==
  LET q == x \div TicksPerCenti
      r == x % TicksPerCenti
  IN  IF 2 * r < TicksPerCenti THEN q * TicksPerCenti
      ELSE IF 2 * r > TicksPerCenti THEN (q + 1) * TicksPerCenti
      ELSE IF q % 2 = 0 THEN q * TicksPerCenti
      ELSE (q + 1) * TicksPerCenti

\* The object and the call in progress as a record: the fields of the object,
\* the clock, the clock readings of this call, the number of times the command
\* has been called, what the command saw of <<is_running, saved_time>> when it
\* was called in this call, whether it raised, the value returned, and
\* whether Timer.stop has ever run.
Self ==
  [time_in_seconds |-> time_in_seconds, command |-> command,
   saved_time |-> saved_time, is_running |-> is_running,
   start_time |-> start_time, is_pause |-> is_pause,
   clock |-> now, reads |-> <<>>,
   calls |-> calls, seen |-> <<>>, raised |-> FALSE, ret |-> <<>>,
   stopped |-> stopped]

\* time.time(): the next reading of the clock within the call; the first one
\* reads the clock as it is when the call is made
ReadClock(s, ds) ==
  LET n == Len(s.reads)
      t == IF n = 0 THEN s.clock ELSE s.clock + ds[n]
  IN  [s EXCEPT !.clock = t, !.reads = Append(@, t)]

\* ---------------------------------------------------------------- Timer

\* Timer.get_time() that recomputes whether the timer is running or not
Timer_get_time_always(s, ds) ==
  LET s1 == [s EXCEPT !.saved_time = Round2(s.clock - s.start_time)]
  IN  [s1 EXCEPT !.ret = <<s1.saved_time>>]

\* Timer.get_time() that detects expiry as update() does
Timer_get_time_expiring(s, ds) ==
  LET r  == ReadClock(s, ds)
      s1 == [r EXCEPT !.saved_time = Round2(r.clock - r.start_time)]
      s2 == IF s1.time_in_seconds >= 0 /\ s1.saved_time >= s1.time_in_seconds
            THEN [s1 EXCEPT !.is_running = FALSE, !.stopped = TRUE,
                            !.calls = IF s1.command THEN @ + 1 ELSE @]
            ELSE s1
  IN  IF s.is_running THEN [s2 EXCEPT !.ret = <<s2.saved_time>>]
      ELSE [s EXCEPT !.ret = <<s.saved_time>>]

\* Timer.get_time(number_of_reserved_bits=2)
Timer_get_time(s, ds) ==
  LET s1 == IF s.is_running
            THEN LET r == ReadClock(s, ds)
                 IN  [r EXCEPT !.saved_time = Round2(r.clock - r.start_time)]
            ELSE s
  IN  [s1 EXCEPT !.ret = <<s1.saved_time>>]

\* Timer.stop() that calls the command before it clears is_running
Timer_stop_command_first(s, ds, raises) ==
  LET s1 == Timer_get_time(s, ds)
      s2 == IF s1.command
            THEN [s1 EXCEPT !.calls = @ + 1,
                            !.seen = <<s1.is_running, s1.saved_time>>,
                            !.raised = raises, !.ret = <<>>]
            ELSE s1
      s3 == [s2 EXCEPT !.is_running = FALSE, !.stopped = TRUE]
  IN  IF s2.raised THEN [s2 EXCEPT !.stopped = TRUE] ELSE Timer_get_time(s3, ds)

\* Timer.stop() that calls the command only when it stops a running timer
Timer_stop_once(s, ds, raises) ==
  LET s1 == Timer_get_time(s, ds)
      s2 == [s1 EXCEPT !.is_running = FALSE, !.ret = <<>>, !.stopped = TRUE]
      s3 == IF s2.command /\ s.is_running
            THEN [s2 EXCEPT !.calls = @ + 1,
                            !.seen = <<s2.is_running, s2.saved_time>>,
                            !.raised = raises]
            ELSE s2
  IN  IF s3.raised THEN s3 ELSE Timer_get_time(s3, ds)

\* Timer.stop() without the snapshot taken before the timer is stopped
Timer_stop_no_snapshot(s, ds, raises) ==
  LET s2 == [s EXCEPT !.is_running = FALSE, !.ret = <<>>, !.stopped = TRUE]
      s3 == IF s2.command
            THEN [s2 EXCEPT !.calls = @ + 1,
                            !.seen = <<s2.is_running, s2.saved_time>>,
                            !.raised = raises]
            ELSE s2
  IN  IF s3.raised THEN s3 ELSE Timer_get_time(s3, ds)

\* Timer.stop(); `raises` is whether the command, if called, raises
Timer_stop(s, ds, raises) ==
  LET s1 == Timer_get_time(s, ds)
      s2 == [s1 EXCEPT !.is_running = FALSE, !.ret = <<>>, !.stopped = TRUE]
      s3 == IF s2.command
            THEN [s2 EXCEPT !.calls = @ + 1,
                            !.seen = <<s2.is_running, s2.saved_time>>,
                            !.raised = raises]
            ELSE s2
  IN  IF s3.raised THEN s3 ELSE Timer_get_time(s3, ds)

\* Timer.start() that resets the saved time
Timer_start_reset(s, new, ds) ==
  LET s0 == IF new # -1 THEN [s EXCEPT !.time_in_seconds = new] ELSE s
      r  == ReadClock(s0, ds)
  IN  [r EXCEPT !.is_running = TRUE, !.start_time = r.clock, !.saved_time = 0]

\* Timer.start(new_time_in_seconds=-1)
Timer_start(s, new, ds) ==
  LET s0 == IF new # -1 THEN [s EXCEPT !.time_in_seconds = new] ELSE s
      r  == ReadClock(s0, ds)
  IN  [r EXCEPT !.is_running = TRUE, !.start_time = r.clock]

\* Timer.update() that recomputes the saved time and never stops the timer
Timer_update_never_stops(s, ds, raises) ==
  IF ~s.is_running THEN s
  ELSE LET r == ReadClock(s, ds)
       IN  [r EXCEPT !.saved_time = r.clock - r.start_time]

\* Timer.update() with the comparison inverted
Timer_update_inverted(s, ds, raises) ==
  IF ~s.is_running THEN s
  ELSE LET r  == ReadClock(s, ds)
           s1 == [r EXCEPT !.saved_time = r.clock - r.start_time]
       IN  IF s1.saved_time >= s1.time_in_seconds \/ s1.time_in_seconds < 0
           THEN s1
           ELSE [Timer_stop(s1, ds, raises) EXCEPT !.ret = <<>>]

\* Timer.update() that expires one tick late (<= for <)
Timer_update_late(s, ds, raises) ==
  IF ~s.is_running THEN s
  ELSE LET r  == ReadClock(s, ds)
           s1 == [r EXCEPT !.saved_time = r.clock - r.start_time]
       IN  IF s1.saved_time <= s1.time_in_seconds \/ s1.time_in_seconds < 0
           THEN s1
           ELSE [Timer_stop(s1, ds, raises) EXCEPT !.ret = <<>>]

\* Timer.update() without the test for an unbounded duration
Timer_update_no_sentinel(s, ds, raises) ==
  IF ~s.is_running THEN s
  ELSE LET r  == ReadClock(s, ds)
           s1 == [r EXCEPT !.saved_time = r.clock - r.start_time]
       IN  IF s1.saved_time < s1.time_in_seconds
           THEN s1
           ELSE [Timer_stop(s1, ds, raises) EXCEPT !.ret = <<>>]

\* Timer.update() that takes only -1 itself for unbounded
Timer_update_below_sentinel(s, ds, raises) ==
  IF ~s.is_running THEN s
  ELSE LET r  == ReadClock(s, ds)
           s1 == [r EXCEPT !.saved_time = r.clock - r.start_time]
       IN  IF s1.saved_time < s1.time_in_seconds \/ s1.time_in_seconds < -1
           THEN s1
           ELSE [Timer_stop(s1, ds, raises) EXCEPT !.ret = <<>>]

\* Timer.update()
Timer_update(s, ds, raises) ==
  IF ~s.is_running THEN s
  ELSE LET r  == ReadClock(s, ds)
           s1 == [r EXCEPT !.saved_time = r.clock - r.start_time]
       IN  IF s1.saved_time < s1.time_in_seconds \/ s1.time_in_seconds < 0
           THEN s1
           ELSE [Timer_stop(s1, ds, raises) EXCEPT !.ret = <<>>]

\* Timer.pause() that freezes a fresh reading
Timer_pause_snapshot(s) ==
  [s EXCEPT !.is_running = FALSE,
            !.saved_time = IF s.is_running THEN s.clock - s.start_time ELSE @]

\* Timer.pause()
Timer_pause(s) == [s EXCEPT !.is_running = FALSE]

\* Timer.go_on() that leaves the paused interval out (re-anchors)
Timer_go_on_reanchor(s, ds, raises) ==
  LET r == ReadClock(s, ds)
  IN  Timer_update([r EXCEPT !.is_running = TRUE, !.reads = <<>>,
                             !.start_time = r.clock - r.saved_time], ds, raises)

\* Timer.go_on()
Timer_go_on(s, ds, raises) ==
  Timer_update([s EXCEPT !.is_running = TRUE], ds, raises)

\* ---------------------------------------------------------------- CountUpTimer

\* CountUpTimer.start() that resets the saved time and keeps the old anchor
CountUpTimer_start_no_reanchor(s, ds) ==
  LET s1 == IF s.is_pause THEN [s EXCEPT !.saved_time = 0] ELSE s
  IN  [s1 EXCEPT !.is_running = TRUE, !.is_pause = TRUE]

\* CountUpTimer.start()
CountUpTimer_start(s, ds) ==
  LET s1 == IF s.is_pause
            THEN LET r == ReadClock(s, ds)
                 IN  [r EXCEPT !.start_time = r.clock, !.saved_time = 0]
            ELSE s
  IN  [s1 EXCEPT !.is_running = TRUE, !.is_pause = TRUE]

\* CountUpTimer._get_time()
CountUpTimer__get_time(s, ds) ==
  IF ~s.is_running THEN [s EXCEPT !.ret = <<s.saved_time>>]
  ELSE LET r == ReadClock(s, ds)
           v == r.clock - r.start_time
       IN  [r EXCEPT !.saved_time = v, !.ret = <<v>>]

\* CountUpTimer.get_time(mode='seconds')
CountUpTimer_get_time(s, ds) == CountUpTimer__get_time(s, ds)

\* CountUpTimer.stop()
CountUpTimer_stop(s, ds) ==
  [CountUpTimer_get_time(s, ds) EXCEPT !.is_running = FALSE, !.ret = <<>>]

\* ---------------------------------------------------------------- CountDownTimer

\* CountDownTimer.__init__: the duration of "HH:MM:SS" in ticks
CountDownTimer_seconds(hours, min, sec) ==
  hours * 3600 * TicksPerSecond + min * 60 * TicksPerSecond + sec

\* CountDownTimer.start()
CountDownTimer_start(s, ds) == Timer_start(s, -1, ds)

\* CountDownTimer.update()
CountDownTimer_update(s, ds, raises) == Timer_update(s, ds, raises)

\* CountDownTimer.pause()
CountDownTimer_pause(s) == Timer_pause(s)

\* CountDownTimer.go_on()
CountDownTimer_go_on(s, ds, raises) ==
  LET s1 == Timer_go_on(s, ds, raises)
  IN  IF s1.raised THEN s1 ELSE CountDownTimer_update(s1, ds, raises)

\* CountDownTimer.get_time() that asks the timer for a fresh reading
CountDownTimer_get_time_live(s, secs) ==
  LET s1 == Timer_get_time(s, <<>>)
  IN  [s1 EXCEPT !.ret = <<secs - s1.saved_time>>]

\* CountDownTimer.get_time() that recomputes the saved time of a running timer
CountDownTimer_get_time_refresh(s, secs) ==
  LET s1 == IF s.is_running
            THEN [s EXCEPT !.saved_time = s.clock - s.start_time]
            ELSE s
  IN  [s1 EXCEPT !.ret = <<secs - s1.saved_time>>]

\* CountDownTimer.get_time(mode='seconds')
CountDownTimer_get_time(s, secs) == [s EXCEPT !.ret = <<secs - s.saved_time>>]

\* CountDownTimer.stop()
CountDownTimer_stop(s, ds, raises) ==
  [Timer_stop(s, ds, raises) EXCEPT !.ret = <<>>]

\* ---------------------------------------------------------------- state machine

Init ==
  /\ now = Epoch
  /\ kind \in {"Timer", "CountUpTimer", "CountDownTimer"}
  /\ saved_time = 0
  /\ is_running = FALSE
  /\ is_pause = FALSE
  /\ \/ /\ kind = "Timer"
        /\ time_in_seconds \in Durations
        /\ command \in BOOLEAN
        /\ start_time = 0
        /\ seconds = 0
     \/ /\ kind = "CountUpTimer"
        /\ \E offset \in Offsets : start_time = offset + now
        /\ time_in_seconds = Sentinel
        /\ command = FALSE
        /\ seconds = 0
     \/ /\ kind = "CountDownTimer"
        /\ \E h \in HourFields, m \in MinuteFields, sec \in SecondFields :
             seconds = CountDownTimer_seconds(h, m, sec)
        /\ time_in_seconds = seconds
        /\ command \in BOOLEAN
        /\ start_time = 0
  /\ op = "init"
  /\ lastCall = "init"
  /\ result = <<>>
  /\ reads = <<>>
  /\ calls = 0
  /\ seen = <<>>
  /\ raised = FALSE
  /\ hist = "new"
  /\ startedAt = <<>>
  /\ stopped = FALSE

\* the history of a Timer: "prestart" for good once a call other than start()
\* came first; otherwise "restarted" from the second start() on and, between
\* the first start() and the second, "polling" while it was only updated,
\* then "paused" by pause(), "idle" once the clock has advanced while paused,
\* "resumed" by go_on(), and "mixed" after any other order of calls
TimerHist(name) ==
  IF hist = "prestart" \/ (hist = "new" /\ name # "start") THEN "prestart"
  ELSE IF name = "start" THEN (IF hist = "new" THEN "polling" ELSE "restarted")
  ELSE IF hist = "restarted" THEN "restarted"
  ELSE IF name = "update" /\ hist = "polling" THEN "polling"
  ELSE IF name = "pause" /\ hist = "polling" THEN "paused"
  ELSE IF name = "go_on" /\ hist = "idle" THEN "resumed"
  ELSE "mixed"

\* the history of a CountUpTimer: "run" after its first start(), "restarted"
\* after a start() while running, "stopped" after stop(), "rearmed" after
\* start(), stop(), start()
CountUpHist(name) ==
  IF name = "start"
  THEN (IF hist = "new" THEN "run"
        ELSE IF hist = "stopped" THEN "rearmed"
        ELSE IF hist = "run" THEN "restarted"
        ELSE hist)
  ELSE IF name = "stop"
  THEN (IF hist = "new" THEN "new" ELSE "stopped")
  ELSE hist

\* the call `name` ends in s
Commit(name, s) ==
  /\ s.clock <= MaxClock
  /\ s.calls <= MaxCalls
  /\ time_in_seconds' = s.time_in_seconds
  /\ saved_time' = s.saved_time
  /\ is_running' = s.is_running
  /\ start_time' = s.start_time
  /\ is_pause' = s.is_pause
  /\ now' = s.clock
  /\ op' = name
  /\ lastCall' = name
  /\ result' = IF s.raised THEN <<>> ELSE s.ret
  /\ reads' = s.reads
  /\ calls' = s.calls
  /\ seen' = s.seen
  /\ raised' = s.raised
  /\ hist' = IF kind = "CountUpTimer" THEN CountUpHist(name) ELSE TimerHist(name)
  /\ startedAt' = IF name = "start" THEN <<s.clock>> ELSE startedAt
  /\ stopped' = s.stopped
  /\ UNCHANGED <<kind, seconds, command>>

\* the clock advances between two calls (the record of the last call is dropped)
Tick ==
  /\ now < MaxClock
  /\ now' = now + 1
  /\ op' = "tick"
  /\ result' = <<>>
  /\ reads' = <<>>
  /\ seen' = <<>>
  /\ raised' = FALSE
  /\ hist' = IF hist = "paused" THEN "idle" ELSE hist
  /\ UNCHANGED <<kind, seconds, time_in_seconds, command, saved_time, is_running,
                 start_time, is_pause, lastCall, calls, startedAt, stopped>>

TimerStart ==
  /\ kind = "Timer"
  /\ \E new \in Overrides, ds \in Delays(0) : Commit("start", Timer_start(Self, new, ds))

TimerUpdate ==
  /\ kind = "Timer"
  /\ \E ds \in Delays(1), raises \in BOOLEAN :
       Commit("update", Timer_update(Self, ds, raises))

TimerPause ==
  /\ kind = "Timer"
  /\ Commit("pause", Timer_pause(Self))

TimerGoOn ==
  /\ kind = "Timer"
  /\ \E ds \in Delays(1), raises \in BOOLEAN :
       Commit("go_on", Timer_go_on(Self, ds, raises))

TimerGetTime ==
  /\ kind = "Timer"
  /\ \E ds \in Delays(0) : Commit("get_time", Timer_get_time(Self, ds))

TimerStop ==
  /\ kind = "Timer"
  /\ \E ds \in Delays(0), raises \in BOOLEAN :
       Commit("stop", Timer_stop(Self, ds, raises))

CountUpStart ==
  /\ kind = "CountUpTimer"
  /\ \E ds \in Delays(0) : Commit("start", CountUpTimer_start(Self, ds))

CountUpGetTime ==
  /\ kind = "CountUpTimer"
  /\ \E ds \in Delays(0) : Commit("get_time", CountUpTimer_get_time(Self, ds))

CountUpStop ==
  /\ kind = "CountUpTimer"
  /\ \E ds \in Delays(0) : Commit("stop", CountUpTimer_stop(Self, ds))

CountDownStart ==
  /\ kind = "CountDownTimer"
  /\ \E ds \in Delays(0) : Commit("start", CountDownTimer_start(Self, ds))

CountDownUpdate ==
  /\ kind = "CountDownTimer"
  /\ \E ds \in Delays(1), raises \in BOOLEAN :
       Commit("update", CountDownTimer_update(Self, ds, raises))

CountDownPause ==
  /\ kind = "CountDownTimer"
  /\ Commit("pause", CountDownTimer_pause(Self))

CountDownGoOn ==
  /\ kind = "CountDownTimer"
  /\ \E ds \in Delays(2), raises \in BOOLEAN :
       Commit("go_on", CountDownTimer_go_on(Self, ds, raises))

CountDownGetTime ==
  /\ kind = "CountDownTimer"
  /\ Commit("get_time", CountDownTimer_get_time(Self, seconds))

CountDownStop ==
  /\ kind = "CountDownTimer"
  /\ \E ds \in Delays(0), raises \in BOOLEAN :
       Commit("stop", CountDownTimer_stop(Self, ds, raises))

Next ==
  \/ Tick
  \/ TimerStart
  \/ TimerUpdate
  \/ TimerPause
  \/ TimerGoOn
  \/ TimerGetTime
  \/ TimerStop
  \/ CountUpStart
  \/ CountUpGetTime
  \/ CountUpStop
  \/ CountDownStart
  \/ CountDownUpdate
  \/ CountDownPause
  \/ CountDownGoOn
  \/ CountDownGetTime
  \/ CountDownStop

Spec == Init /\ [][Next]_vars

\* ---------------------------------------------------------------- claims

\* C1: a bounded Timer (duration d >= 0) with a command, started once and then
\* only updated: an update that reads now - start_time < d leaves it running,
\* the first update that reads now - start_time >= d stops it and calls the
\* command, later updates do nothing; so the command has been called once
\* exactly when the timer has stopped, and never twice.
C1_Case ==
  kind = "Timer" /\ hist = "polling" /\ command /\ time_in_seconds >= 0

C1_Update ==
  (C1_Case /\ op' = "update") =>
    IF ~is_running
    THEN ~is_running' /\ calls' = calls /\ saved_time' = saved_time
    ELSE IF reads'[1] - start_time < time_in_seconds
    THEN is_running' /\ calls' = calls
    ELSE ~is_running' /\ calls' = calls + 1

\* C1: the command has been called once exactly when the polled timer has
\* stopped, and every update() behaves as C1_Update says.
C1_ExpiresOnce ==
  /\ [](C1_Case => calls = (IF is_running THEN 0 ELSE 1))
  /\ [][C1_Update]_vars

C1_Witness ==
  C1_Case /\ ~is_running /\ calls = 1 /\ op = "update" /\ reads = <<>>
    /\ time_in_seconds > 0

\* C2 as claimed: with the unbounded duration -1 the command is never called.
C2_NeverCalled ==
  (kind = "Timer" /\ time_in_seconds = Sentinel /\ command) => calls = 0

\* C2 as amended: with the unbounded duration -1, start(), update(), pause(),
\* go_on() and get_time() never call the command; each stop() calls it once.
C2_OnlyStopCalls ==
  [][(kind = "Timer" /\ time_in_seconds = Sentinel /\ command) =>
       calls' = (IF op' = "stop" THEN calls + 1 ELSE calls)]_vars

C2_Witness ==
  /\ kind = "Timer" /\ time_in_seconds = Sentinel /\ command
  /\ op = "go_on" /\ calls = 1 /\ saved_time > TicksPerCenti + 1

\* C3: an update() of a running Timer with the unbounded duration leaves it
\* running, whatever the clock reads.
C3_NeverAutoStops ==
  [][(kind = "Timer" /\ time_in_seconds = Sentinel /\ is_running /\ op' = "update")
       => is_running' /\ saved_time' = now' - start_time]_vars

C3_Witness ==
  /\ kind = "Timer" /\ time_in_seconds = Sentinel /\ is_running
  /\ op = "update" /\ saved_time > TicksPerCenti + 1 /\ now = MaxClock

\* C4: when the command is called, from stop() or from an expiring update() or
\* go_on(), is_running is already false and saved_time already has the value
\* it has after the call; a command that raises leaves the timer stopped with
\* that value.
C4_CommittedBeforeCommand ==
  /\ seen # <<>> => seen = <<FALSE, saved_time>> /\ ~is_running
  /\ raised => seen # <<>>

C4_Witness ==
  /\ kind = "Timer" /\ op = "update" /\ raised /\ seen # <<>>
  /\ saved_time > 0 /\ ~is_running

Readings == {"update", "go_on", "get_time"}

\* C5 as claimed: over two consecutive operations among update(), get_time(),
\* start() and go_on() on a running Timer, saved_time never decreases.
C5_NeverDecreases ==
  [][(/\ kind = "Timer" /\ is_running /\ is_running' /\ startedAt # <<>>
      /\ hist # "prestart"
      /\ lastCall \in Readings \cup {"start"}
      /\ op' \in Readings \cup {"start"})
       => saved_time' >= saved_time]_vars

\* C5 as amended: over two consecutive operations among update(), go_on() and
\* get_time() on a running Timer, with no start() in between, saved_time does
\* not decrease when both readings are unrounded or both are rounded, and
\* decreases by at most half a hundredth of a second otherwise.
C5_DecreasesByRoundingOnly ==
  [][(/\ kind = "Timer" /\ is_running /\ is_running'
      /\ lastCall \in Readings
      /\ op' \in Readings)
       => /\ 2 * (saved_time - saved_time') <= TicksPerCenti
          /\ ((lastCall = "get_time") = (op' = "get_time")
                => saved_time' >= saved_time)]_vars

C5_Witness ==
  /\ kind = "Timer" /\ is_running /\ op = "get_time" /\ hist = "mixed"
  /\ startedAt # <<>> /\ saved_time < now - start_time /\ saved_time > 0

\* C6 as claimed: after update() has stopped a bounded Timer on expiry,
\* is_running is false and get_time() returns at least the duration.
C6_AtLeastDuration ==
  (/\ kind = "Timer" /\ op = "update" /\ Len(reads) = 2 /\ time_in_seconds >= 0
   /\ startedAt # <<>>)
    => /\ ~is_running
       /\ Timer_get_time(Self, <<>>).ret[1] >= time_in_seconds

\* C6 as amended: after update() has stopped a bounded Timer on expiry,
\* is_running is false and get_time() returns at least the duration rounded
\* to 2 decimals (at least the duration when that is a whole number of
\* hundredths).
C6_AtLeastRoundedDuration ==
  (kind = "Timer" /\ op = "update" /\ Len(reads) = 2 /\ time_in_seconds >= 0)
    => /\ ~is_running
       /\ Timer_get_time(Self, <<>>).ret[1] >= Round2(time_in_seconds)
       /\ (time_in_seconds % TicksPerCenti = 0
             => Timer_get_time(Self, <<>>).ret[1] >= time_in_seconds)

C6_Witness ==
  /\ kind = "Timer" /\ op = "update" /\ Len(reads) = 2
  /\ time_in_seconds = TicksPerCenti /\ ~is_running
  /\ startedAt # <<>> /\ saved_time = 2 * TicksPerCenti

\* C7: pause() and go_on() never change start_time, and a go_on() of a started
\* Timer that is unbounded or has not reached its duration sets saved_time to
\* the clock time since the last start(), paused time included.
C7_PausedTimeCounts ==
  [][/\ (kind = "Timer" /\ op' \in {"pause", "go_on"}) => start_time' = start_time
     /\ (/\ kind = "Timer" /\ op' = "go_on" /\ startedAt # <<>>
         /\ \/ time_in_seconds < 0
            \/ now' - startedAt[1] < time_in_seconds)
          => is_running' /\ saved_time' = now' - startedAt[1]]_vars

C7_Witness ==
  /\ kind = "Timer" /\ op = "go_on" /\ hist = "resumed" /\ is_running
  /\ saved_time = now - startedAt[1] /\ saved_time >= 2

\* C8 as claimed: a CountDownTimer's get_time(), called after start() and a
\* clock advance t < D with no other call in between, returns D - t.
C8_LiveRemaining ==
  [][(/\ kind = "CountDownTimer" /\ lastCall = "start" /\ op' = "get_time"
      /\ now' - startedAt[1] < seconds)
       => result' = <<seconds - (now' - startedAt[1])>>]_vars

\* C8 as amended: a CountDownTimer's get_time(), called after start() and a
\* clock advance with no other call in between, returns D minus the saved
\* time last stored by update(), go_on() or stop(): D itself on a timer that
\* has only been started; it returns D - t right after an update() that found
\* it running at t.
C8_StaleRemaining ==
  /\ [][(kind = "CountDownTimer" /\ lastCall = "start" /\ op' = "get_time")
          => /\ result' = <<seconds - saved_time>>
             /\ hist = "polling" => result' = <<seconds>>]_vars
  /\ [][(/\ kind = "CountDownTimer" /\ op = "update" /\ is_running
          /\ startedAt # <<>> /\ op' = "get_time")
          => result' = <<seconds - (now - startedAt[1])>>]_vars

C8_Witness ==
  /\ kind = "CountDownTimer" /\ op = "get_time" /\ is_running
  /\ lastCall = "get_time" /\ hist = "mixed" /\ saved_time = 0
  /\ startedAt # <<>> /\ now - startedAt[1] = 2 /\ seconds = TicksPerCenti + 1
  /\ result = <<seconds>>

\* C9: get_time() of a Timer that is not running returns saved_time, whatever
\* the clock reads, and changes nothing (so a second call returns the same).
C9_FrozenRead ==
  [][(kind = "Timer" /\ ~is_running /\ op' = "get_time")
       => /\ result' = <<saved_time>>
          /\ UNCHANGED <<is_running, start_time, saved_time, time_in_seconds,
                         calls, now>>
          /\ seen' = <<>>]_vars

C9_Witness ==
  /\ kind = "Timer" /\ ~is_running /\ op = "get_time" /\ lastCall = "get_time"
  /\ startedAt # <<>> /\ saved_time > 0
  /\ Round2(now - start_time) # saved_time

\* C10: after start(), stop() and a fresh start() of a CountUpTimer at t1,
\* get_time() at t returns t - t1.
C10_Rearmed ==
  (kind = "CountUpTimer" /\ hist = "rearmed" /\ op = "get_time" /\ is_running)
    => result = <<now - startedAt[1]>> /\ saved_time = now - startedAt[1]

C10_Witness ==
  /\ kind = "CountUpTimer" /\ hist = "rearmed" /\ op = "get_time" /\ is_running
  /\ result = <<2>> /\ startedAt[1] >= Epoch + 3

\* C11 as claimed: get_time() on a running bounded Timer whose elapsed time
\* has reached the duration stops it, as update() would.
C11_GetTimeExpires ==
  (/\ kind = "Timer" /\ op = "get_time" /\ reads # <<>> /\ startedAt # <<>>
   /\ time_in_seconds >= 0 /\ now - start_time >= time_in_seconds)
    => ~is_running

\* C11 as amended: get_time() on a running Timer stores and returns the
\* reading rounded to 2 decimals and nothing else: the timer stays running and
\* the command is not called, however far the duration is exceeded.
C11_GetTimeOnlyReads ==
  [][(kind = "Timer" /\ is_running /\ op' = "get_time")
       => /\ is_running' /\ calls' = calls /\ seen' = <<>> /\ stopped' = stopped
          /\ saved_time' = Round2(now' - start_time)
          /\ result' = <<saved_time'>>]_vars

C11_Witness ==
  /\ kind = "Timer" /\ op = "get_time" /\ is_running /\ command /\ calls = 0
  /\ startedAt # <<>> /\ time_in_seconds >= 0
  /\ saved_time >= time_in_seconds + TicksPerCenti

SingleStart == {"polling", "paused", "idle", "resumed", "mixed"}

\* C12 as claimed: after a single start() of a bounded Timer with a command,
\* whatever update(), pause(), go_on(), get_time() and stop() calls follow, the
\* command is called at most once.
C12_AtMostOnce ==
  (kind = "Timer" /\ command /\ time_in_seconds >= 0 /\ hist \in SingleStart)
    => calls <= 1

\* C12 as amended: for a bounded Timer with a command, every stop() calls the
\* command once, every update() of a running timer and every go_on() that
\* reads an elapsed time at or past the duration calls it once, and no other
\* call does; a CountDownTimer's go_on() calls it once exactly when it leaves
\* the timer stopped.
C12_CalledPerStop ==
  [][(kind # "CountUpTimer" /\ command /\ time_in_seconds >= 0) =>
       /\ op' = "stop" => calls' = calls + 1
       /\ op' \in {"start", "pause", "get_time", "tick"} => calls' = calls
       /\ op' \in {"update", "go_on"} =>
            /\ calls' = IF (op' = "go_on" \/ is_running) /\ ~is_running'
                        THEN calls + 1 ELSE calls
            /\ kind = "Timer" =>
                 (calls' = calls + 1 <=>
                    /\ op' = "go_on" \/ is_running
                    /\ now - start_time >= time_in_seconds)]_vars

C12_Witness ==
  /\ kind = "Timer" /\ command /\ time_in_seconds > 0 /\ hist = "mixed"
  /\ op = "go_on" /\ calls = 2 /\ ~is_running /\ lastCall = "go_on"

\* C13 as claimed: after stop() in any state, is_running is false, saved_time
\* is the reading now - start_time rounded to 2 decimals, and stop() returned
\* saved_time.
C13_FreshSnapshot ==
  (kind = "Timer" /\ op = "stop" /\ ~raised /\ startedAt # <<>>)
    => /\ ~is_running
       /\ saved_time = Round2(now - start_time)
       /\ result = <<saved_time>>

\* C13 as amended: after stop(), is_running is false and stop() returned
\* saved_time (unless the command raised); saved_time is the reading
\* now - start_time rounded to 2 decimals when the timer was running, and is
\* left as it was when it was not.
C13_SnapshotIfRunning ==
  [][(kind = "Timer" /\ op' = "stop")
       => /\ ~is_running'
          /\ saved_time' = IF is_running THEN Round2(now' - start_time)
                           ELSE saved_time
          /\ result' = IF raised' THEN <<>> ELSE <<saved_time'>>]_vars

C13_Witness ==
  /\ kind = "Timer" /\ op = "stop" /\ ~raised /\ startedAt # <<>>
  /\ ~is_running /\ result = <<saved_time>>
  /\ saved_time + TicksPerCenti <= Round2(now - start_time)

\* C14 as claimed: after start() at t1 on a Timer whose saved_time is s, the
\* next update() at t stores s + (t - t1).
C14_ResumesAdditively ==
  [][(/\ kind = "Timer" /\ hist = "restarted" /\ lastCall = "start"
      /\ op' = "update" /\ is_running')
       => saved_time' = saved_time + (now' - startedAt[1])]_vars

\* C14 as amended: start() leaves saved_time as it is and sets start_time to
\* the clock; the next update() at t stores t - t1 and the next get_time()
\* stores and returns t - t1 rounded to 2 decimals, so what was saved before
\* the start() is overwritten, not added to.
C14_RestartsFromAnchor ==
  [][/\ (kind = "Timer" /\ op' = "start")
          => saved_time' = saved_time /\ start_time' = now' /\ is_running'
     /\ (kind = "Timer" /\ lastCall = "start" /\ op' = "update" /\ is_running')
          => saved_time' = now' - startedAt[1]
     /\ (kind = "Timer" /\ lastCall = "start" /\ op' = "get_time")
          => /\ saved_time' = Round2(now' - startedAt[1])
             /\ result' = <<saved_time'>>]_vars

C14_Witness ==
  /\ kind = "Timer" /\ op = "start" /\ hist = "restarted" /\ is_running
  /\ saved_time >= 2 /\ start_time = now

\* C15: pause() clears is_running and changes nothing else, whatever the
\* clock reads, and does not call the command; update() on a Timer that is not
\* running changes nothing.
C15_PauseOnlyClearsRunning ==
  [][/\ (kind = "Timer" /\ op' = "pause")
          => /\ ~is_running' /\ seen' = <<>>
             /\ UNCHANGED <<saved_time, start_time, time_in_seconds, calls,
                            now, stopped>>
     /\ (kind = "Timer" /\ ~is_running /\ op' = "update")
          => /\ seen' = <<>>
             /\ UNCHANGED <<is_running, saved_time, start_time,
                            time_in_seconds, calls, now, stopped>>]_vars

C15_Witness ==
  /\ kind = "Timer" /\ op = "pause" /\ hist = "paused" /\ ~is_running
  /\ saved_time + 2 <= now - start_time /\ time_in_seconds = TicksPerCenti

\* C16: a CountDownTimer's get_time() returns seconds minus the saved time of
\* its timer as update(), go_on() or stop() last wrote it, running or not, and
\* changes nothing: no recomputation, no expiry, no call of the command.
C16_PureRead ==
  [][(kind = "CountDownTimer" /\ op' = "get_time")
       => /\ result' = <<seconds - saved_time>>
          /\ seen' = <<>> /\ ~raised'
          /\ UNCHANGED <<saved_time, is_running, start_time, time_in_seconds,
                         seconds, calls, now, stopped>>]_vars

C16_Witness ==
  /\ kind = "CountDownTimer" /\ op = "get_time" /\ is_running /\ command
  /\ startedAt # <<>> /\ now - start_time > seconds /\ calls = 0
  /\ saved_time = 1 /\ result = <<seconds - 1>>

\* C17: start() on a CountUpTimer that is running leaves start_time and
\* saved_time as they are.
C17_StartWhileRunningIsNoOp ==
  [][(kind = "CountUpTimer" /\ is_running /\ start_time <= now /\ op' = "start")
       => start_time' = start_time /\ saved_time' = saved_time]_vars

\* C18: a CountUpTimer constructed with offset s, started once at t1 and not
\* stopped, returns s + (t - t1) from get_time() at t.  (Until the second
\* start() the offset is start_time - Epoch: Init sets start_time to
\* offset + now at the clock Epoch.)
C18_CountsFromOffset ==
  (kind = "CountUpTimer" /\ hist = "run" /\ op = "get_time" /\ is_running)
    => result = <<(start_time - Epoch) + (now - startedAt[1])>>

C20_WithinLifetime ==
  kind = "Timer" => 0 <= saved_time /\ saved_time <= now - Epoch

====
